---- MODULE Spec2Model ----
(***************************************************************************)
(* Model of the attack / coverage core of chess-attack-visualizer          *)
(* (vite.config.js holds the current pieceLogic: getAttackedSquares,       *)
(* getSlidingAttacks, getMoveSquares, calculateAllAttacks,                 *)
(* calculateAttacksWithDepth and the module-level pieceColorMap).          *)
(*                                                                         *)
(* A square is <<row, col>>.  A board is a function from its occupied      *)
(* squares to pieces, so board[r][c] is truthy iff <<r, c>> \in DOMAIN.    *)
(* An optional board argument is <<>> (null) or <<b>>.  A list is a        *)
(* sequence, in push order.  A Map is the set of its <<key, value>> pairs. *)
(***************************************************************************)
EXTENDS Integers, Sequences, FiniteSets, TLC

VARIABLES board, pieceColorMap, args, call, result, saved,
          nextPieceIndex, draggedPiece, ops

vars == <<board, pieceColorMap, args, call, result, saved,
          nextPieceIndex, draggedPiece, ops>>

\* the state of App the core operations never touch
appVars == <<nextPieceIndex, draggedPiece, ops>>

----------------------------------------------------------------------------
(* Program constants *)

BoardSize == 8

PIECE_TYPES == {"king", "queen", "rook", "bishop", "knight", "pawn"}

Colors == {"white", "black"}

Squares == {<<r, c>> : r \in 0..(BoardSize - 1), c \in 0..(BoardSize - 1)}

NoBoard == <<>>

----------------------------------------------------------------------------
(* Piece geometry *)

\* isOnBoard with <= for <
isOnBoardInclusive(row, col) ==
  row >= 0 /\ row <= BoardSize /\ col >= 0 /\ col <= BoardSize

isOnBoard(row, col) == row >= 0 /\ row < BoardSize /\ col >= 0 /\ col < BoardSize

\* blocked for a caller that never passes the board on
blockedNever(optBoard, nr, nc) == FALSE

\* board && board[nr][nc]
blocked(optBoard, nr, nc) == Len(optBoard) > 0 /\ <<nr, nc>> \in DOMAIN optBoard[1]

\* the rook's list with [0, -1] written twice and [0, 1] left out
RookDirectionsSlip == << <<-1, 0>>, <<1, 0>>, <<0, -1>>, <<0, -1>> >>

RookDirections == << <<-1, 0>>, <<1, 0>>, <<0, -1>>, <<0, 1>> >>

BishopDirections == << <<-1, -1>>, <<-1, 1>>, <<1, -1>>, <<1, 1>> >>

\* the queen's list with [-1, 1] written twice and [1, 1] left out
QueenDirectionsSlip ==
  RookDirections \o << <<-1, -1>>, <<-1, 1>>, <<1, -1>>, <<-1, 1>> >>

QueenDirections == RookDirections \o BishopDirections

\* the king's loops without if (dr === 0 && dc === 0) continue
KingDeltasWithOrigin ==
  << <<-1, -1>>, <<-1, 0>>, <<-1, 1>>, <<0, -1>>, <<0, 0>>,
     <<0, 1>>, <<1, -1>>, <<1, 0>>, <<1, 1>> >>

KingDeltas ==
  << <<-1, -1>>, <<-1, 0>>, <<-1, 1>>, <<0, -1>>,
     <<0, 1>>, <<1, -1>>, <<1, 0>>, <<1, 1>> >>

knightMoves ==
  << <<-2, -1>>, <<-2, 1>>, <<-1, -2>>, <<-1, 2>>,
     <<1, -2>>, <<1, 2>>, <<2, -1>>, <<2, 1>> >>

\* direction with the two colours exchanged
directionExchanged(piece) == IF piece.color = "white" THEN 1 ELSE -1

direction(piece) == IF piece.color = "white" THEN -1 ELSE 1

\* startRow with the two colours exchanged
startRowExchanged(piece) == IF piece.color = "white" THEN 1 ELSE 6

startRow(piece) == IF piece.color = "white" THEN 6 ELSE 1

pawnAttacks(piece) == << <<direction(piece), -1>>, <<direction(piece), 1>> >>

\* slideRay with the test for a piece made before the push: the blocker is left out
RECURSIVE slideRayExclusive(_, _, _, _, _)
slideRayExclusive(nr, nc, dr, dc, optBoard) ==
  IF ~isOnBoard(nr, nc) \/ blocked(optBoard, nr, nc) THEN <<>>
  ELSE << <<nr, nc>> >> \o slideRayExclusive(nr + dr, nc + dc, dr, dc, optBoard)

\* the while loop of getSlidingAttacks: one ray, from (nr, nc) on
RECURSIVE slideRay(_, _, _, _, _)
slideRay(nr, nc, dr, dc, optBoard) ==
  IF ~isOnBoard(nr, nc) THEN <<>>
  ELSE IF blocked(optBoard, nr, nc) THEN << <<nr, nc>> >>
  ELSE << <<nr, nc>> >> \o slideRay(nr + dr, nc + dc, dr, dc, optBoard)

RECURSIVE slideFrom(_, _, _, _, _)
slideFrom(i, row, col, directions, optBoard) ==
  IF i > Len(directions) THEN <<>>
  ELSE slideRay(row + directions[i][1], col + directions[i][2],
                directions[i][1], directions[i][2], optBoard)
       \o slideFrom(i + 1, row, col, directions, optBoard)

getSlidingAttacks(row, col, directions, optBoard) ==
  slideFrom(1, row, col, directions, optBoard)

\* the for loops over fixed deltas (king, knight, pawn): on-board targets only
RECURSIVE deltaTargets(_, _, _, _)
deltaTargets(i, row, col, deltas) ==
  IF i > Len(deltas) THEN <<>>
  ELSE (IF isOnBoard(row + deltas[i][1], col + deltas[i][2])
        THEN << <<row + deltas[i][1], col + deltas[i][2]>> >>
        ELSE <<>>)
       \o deltaTargets(i + 1, row, col, deltas)

getAttackedSquares(piece, row, col, optBoard) ==
  CASE piece.type = "king"   -> deltaTargets(1, row, col, KingDeltas)
    [] piece.type = "queen"  -> getSlidingAttacks(row, col, QueenDirections, optBoard)
    [] piece.type = "rook"   -> getSlidingAttacks(row, col, RookDirections, optBoard)
    [] piece.type = "bishop" -> getSlidingAttacks(row, col, BishopDirections, optBoard)
    [] piece.type = "knight" -> deltaTargets(1, row, col, knightMoves)
    [] piece.type = "pawn"   -> deltaTargets(1, row, col, pawnAttacks(piece))
    [] OTHER                 -> <<>>

getMoveSquares(piece, row, col, optBoard) ==
  IF piece.type # "pawn" THEN getAttackedSquares(piece, row, col, optBoard)
  ELSE
    LET oneForward == row + direction(piece)
        twoForward == row + (direction(piece) * 2)
        forward ==
          IF isOnBoard(oneForward, col) /\ ~blocked(optBoard, oneForward, col)
          THEN << <<oneForward, col>> >>
               \o (IF row = startRow(piece) /\ isOnBoard(twoForward, col)
                      /\ ~blocked(optBoard, twoForward, col)
                   THEN << <<twoForward, col>> >>
                   ELSE <<>>)
          ELSE <<>>
    IN forward \o deltaTargets(1, row, col, pawnAttacks(piece))

----------------------------------------------------------------------------
(* Aggregators.  Every for loop is a left fold over its list, in list      *)
(* order; a fold over the range lo..hi is evaluated as the fold over       *)
(* lo..mid followed by the fold over mid+1..hi.  The test DOMAIN acc = {}  *)
(* of a loop is never true (a grid has 64 squares, a state two fields): it *)
(* makes TLC evaluate the accumulator before the loop goes on.             *)

\* const idx = piece.pieceIndex ?? 0
idxOf(piece) == IF "pieceIndex" \in DOMAIN piece THEN piece.pieceIndex ELSE 0

\* pieceColorMap.set(idx, color)
mapSet(map, idx, color) == {kv \in map : kv[1] # idx} \cup {<<idx, color>>}

attackInfo(piece) == [idx |-> idxOf(piece), color |-> piece.color]

\* hasIdx = (arr, idx) => arr.some(a => a.idx === idx)
hasIdx(arr, idx) == \E i \in 1..Len(arr) : arr[i].idx = idx

\* sameColorTarget without the comparison of the colours
occupiedTarget(b, sq, piece) == sq \in DOMAIN b

\* targetPiece && targetPiece.color === piece.color
sameColorTarget(b, sq, piece) == sq \in DOMAIN b /\ b[sq].color = piece.color

EmptyCell == [attackers |-> <<>>, defenders |-> <<>>]

EmptyDirectGrid == [sq \in Squares |-> EmptyCell]

EmptyDepthGrid ==
  [sq \in Squares |-> [depth1 |-> EmptyCell, depth2 |-> EmptyCell, depth3 |-> EmptyCell]]

\* the squares in the order of the row / col scan
ScanOrder ==
  [n \in 1..(BoardSize * BoardSize) |-> <<(n - 1) \div BoardSize, (n - 1) % BoardSize>>]

\* the occupied squares met by the scan (if (!piece) continue), with piece and idx
piecesOf(b) ==
  LET occupied == SelectSeq(ScanOrder, LAMBDA sq : sq \in DOMAIN b)
  IN [i \in 1..Len(occupied) |->
        [piece |-> b[occupied[i]], row |-> occupied[i][1], col |-> occupied[i][2],
         idx |-> idxOf(b[occupied[i]])]]

\* for (const [ar, ac] of attackedSquares) of calculateAllAttacks
RECURSIVE pushDirect(_, _, _, _, _, _)
pushDirect(attacks, targets, lo, hi, piece, b) ==
  IF lo > hi \/ DOMAIN attacks = {} THEN attacks
  ELSE IF lo = hi
  THEN IF sameColorTarget(b, targets[lo], piece)
       THEN [attacks EXCEPT ![targets[lo]].defenders = Append(@, attackInfo(piece))]
       ELSE [attacks EXCEPT ![targets[lo]].attackers = Append(@, attackInfo(piece))]
  ELSE pushDirect(pushDirect(attacks, targets, lo, (lo + hi) \div 2, piece, b),
                  targets, ((lo + hi) \div 2) + 1, hi, piece, b)

\* the body of the scan of calculateAllAttacks for one piece
stepDirect(st, p, b) ==
  LET attackedSquares == getAttackedSquares(p.piece, p.row, p.col, <<b>>)
  IN [attacks |-> pushDirect(st.attacks, attackedSquares, 1, Len(attackedSquares), p.piece, b),
      pieceColorMap |-> mapSet(st.pieceColorMap, p.idx, p.piece.color)]

RECURSIVE scanDirect(_, _, _, _, _)
scanDirect(st, pieces, lo, hi, b) ==
  IF lo > hi \/ DOMAIN st = {} THEN st
  ELSE IF lo = hi THEN stepDirect(st, pieces[lo], b)
  ELSE scanDirect(scanDirect(st, pieces, lo, (lo + hi) \div 2, b),
                  pieces, ((lo + hi) \div 2) + 1, hi, b)

\* returns the grid and the module-level map as the call leaves it
\* (pieceColorMap.clear() first)
calculateAllAttacks(b) ==
  scanDirect([attacks |-> EmptyDirectGrid, pieceColorMap |-> {}],
             piecesOf(b), 1, Len(piecesOf(b)), b)

\* attackers.length, of a cell of calculateAllAttacks: the cell is an object
\* { attackers, defenders }, which has no length.  The value is <<n>> for
\* the number n and <<>> for undefined.
lengthOf(cell) ==
  IF "length" \in DOMAIN cell THEN <<cell.length>> ELSE <<>>

\* attacks.map(row => row.map(attackers => attackers.length)), with the
\* module-level map as calculateAllAttacks leaves it
calculateAttackCounts(b) ==
  LET returned == calculateAllAttacks(b)
  IN [attacks |-> [sq \in Squares |-> lengthOf(returned.attacks[sq])],
      pieceColorMap |-> returned.pieceColorMap]

\* pieceColorMap.set(idx, piece.color) in the collection loop
RECURSIVE collectColors(_, _, _, _)
collectColors(map, pieces, lo, hi) ==
  IF lo > hi \/ <<>> \in map THEN map
  ELSE IF lo = hi THEN mapSet(map, pieces[lo].idx, pieces[lo].piece.color)
  ELSE collectColors(collectColors(map, pieces, lo, (lo + hi) \div 2),
                     pieces, ((lo + hi) \div 2) + 1, hi)

\* for (const [ar, ac] of attackedSquares) of the depth-1 loop
RECURSIVE pushDepth1(_, _, _, _, _, _)
pushDepth1(attacks, targets, lo, hi, piece, b) ==
  IF lo > hi \/ DOMAIN attacks = {} THEN attacks
  ELSE IF lo = hi
  THEN IF sameColorTarget(b, targets[lo], piece)
       THEN [attacks EXCEPT ![targets[lo]].depth1.defenders = Append(@, attackInfo(piece))]
       ELSE [attacks EXCEPT ![targets[lo]].depth1.attackers = Append(@, attackInfo(piece))]
  ELSE pushDepth1(pushDepth1(attacks, targets, lo, (lo + hi) \div 2, piece, b),
                  targets, ((lo + hi) \div 2) + 1, hi, piece, b)

stepDepth1(attacks, p, b) ==
  LET attackedSquares == getAttackedSquares(p.piece, p.row, p.col, <<b>>)
  IN pushDepth1(attacks, attackedSquares, 1, Len(attackedSquares), p.piece, b)

RECURSIVE depth1Loop(_, _, _, _, _)
depth1Loop(attacks, pieces, lo, hi, b) ==
  IF lo > hi \/ DOMAIN attacks = {} THEN attacks
  ELSE IF lo = hi THEN stepDepth1(attacks, pieces[lo], b)
  ELSE depth1Loop(depth1Loop(attacks, pieces, lo, (lo + hi) \div 2, b),
                  pieces, ((lo + hi) \div 2) + 1, hi, b)

\* addDepth2 without the test of the depth-1 lists
addDepth2NoDepth1Test(attacks, sq, p) ==
  IF ~hasIdx(attacks[sq].depth2.attackers, p.idx)
  THEN [attacks EXCEPT ![sq].depth2.attackers =
          Append(@, [idx |-> p.idx, color |-> p.piece.color])]
  ELSE attacks

\* addDepth2 without the test of the depth-2 list
addDepth2NoDepth2Test(attacks, sq, p) ==
  IF ~hasIdx(attacks[sq].depth1.attackers, p.idx)
     /\ ~hasIdx(attacks[sq].depth1.defenders, p.idx)
  THEN [attacks EXCEPT ![sq].depth2.attackers =
          Append(@, [idx |-> p.idx, color |-> p.piece.color])]
  ELSE attacks

\* addDepth2 classifying its target as the depth-1 loop does
addDepth2Classified(attacks, sq, p) ==
  IF ~hasIdx(attacks[sq].depth1.attackers, p.idx)
     /\ ~hasIdx(attacks[sq].depth1.defenders, p.idx)
     /\ ~hasIdx(attacks[sq].depth2.attackers, p.idx)
     /\ ~hasIdx(attacks[sq].depth2.defenders, p.idx)
  THEN IF sq \in DOMAIN board /\ board[sq].color = p.piece.color
       THEN [attacks EXCEPT ![sq].depth2.defenders =
               Append(@, [idx |-> p.idx, color |-> p.piece.color])]
       ELSE [attacks EXCEPT ![sq].depth2.attackers =
               Append(@, [idx |-> p.idx, color |-> p.piece.color])]
  ELSE attacks

\* addDepth2 leaving out the square the piece stands on
addDepth2NotOwnSquare(attacks, sq, p) ==
  IF sq # <<p.row, p.col>>
     /\ ~hasIdx(attacks[sq].depth1.attackers, p.idx)
     /\ ~hasIdx(attacks[sq].depth1.defenders, p.idx)
     /\ ~hasIdx(attacks[sq].depth2.attackers, p.idx)
  THEN [attacks EXCEPT ![sq].depth2.attackers =
          Append(@, [idx |-> p.idx, color |-> p.piece.color])]
  ELSE attacks

\* the if of the depth-2 loop, for one target [ar, ac]
addDepth2(attacks, sq, p) ==
  LET d1 == attacks[sq].depth1
      d2 == attacks[sq].depth2
  IN IF ~hasIdx(d1.attackers, p.idx) /\ ~hasIdx(d1.defenders, p.idx)
        /\ ~hasIdx(d2.attackers, p.idx)
     THEN [attacks EXCEPT ![sq].depth2.attackers =
             Append(@, [idx |-> p.idx, color |-> p.piece.color])]
     ELSE attacks

\* for (const [ar, ac] of futureAttacks) of the depth-2 loop
RECURSIVE pushDepth2(_, _, _, _, _)
pushDepth2(attacks, targets, lo, hi, p) ==
  IF lo > hi \/ DOMAIN attacks = {} THEN attacks
  ELSE IF lo = hi THEN addDepth2(attacks, targets[lo], p)
  ELSE pushDepth2(pushDepth2(attacks, targets, lo, (lo + hi) \div 2, p),
                  targets, ((lo + hi) \div 2) + 1, hi, p)

\* moveDepth2 asking from the piece's own square, not from the move square
moveDepth2FromOrigin(attacks, move, p) ==
  LET futureAttacks == getAttackedSquares(p.piece, p.row, p.col, NoBoard)
  IN pushDepth2(attacks, futureAttacks, 1, Len(futureAttacks), p)

\* the body of the loop over possibleMoves: no board is passed
moveDepth2(attacks, move, p) ==
  LET futureAttacks == getAttackedSquares(p.piece, move[1], move[2], NoBoard)
  IN pushDepth2(attacks, futureAttacks, 1, Len(futureAttacks), p)

\* for (const [moveRow, moveCol] of possibleMoves) of the depth-2 loop
RECURSIVE movesDepth2(_, _, _, _, _)
movesDepth2(attacks, possibleMoves, lo, hi, p) ==
  IF lo > hi \/ DOMAIN attacks = {} THEN attacks
  ELSE IF lo = hi THEN moveDepth2(attacks, possibleMoves[lo], p)
  ELSE movesDepth2(movesDepth2(attacks, possibleMoves, lo, (lo + hi) \div 2, p),
                   possibleMoves, ((lo + hi) \div 2) + 1, hi, p)

\* stepDepth2 moving the piece to its attacked squares, as
\* src/utils/pieceLogic.js does (currentAttacks)
stepDepth2FromAttacks(attacks, p, b) ==
  LET possibleMoves == getAttackedSquares(p.piece, p.row, p.col, <<b>>)
  IN movesDepth2(attacks, possibleMoves, 1, Len(possibleMoves), p)

stepDepth2(attacks, p, b) ==
  LET possibleMoves == getMoveSquares(p.piece, p.row, p.col, <<b>>)
  IN movesDepth2(attacks, possibleMoves, 1, Len(possibleMoves), p)

RECURSIVE depth2Loop(_, _, _, _, _)
depth2Loop(attacks, pieces, lo, hi, b) ==
  IF lo > hi \/ DOMAIN attacks = {} THEN attacks
  ELSE IF lo = hi THEN stepDepth2(attacks, pieces[lo], b)
  ELSE depth2Loop(depth2Loop(attacks, pieces, lo, (lo + hi) \div 2, b),
                  pieces, ((lo + hi) \div 2) + 1, hi, b)

\* addDepth3 pushing onto the depth-2 list
addDepth3OntoDepth2(attacks, sq, p) ==
  LET d1 == attacks[sq].depth1
      d2 == attacks[sq].depth2
      d3 == attacks[sq].depth3
  IN IF ~hasIdx(d1.attackers, p.idx) /\ ~hasIdx(d1.defenders, p.idx)
        /\ ~hasIdx(d2.attackers, p.idx) /\ ~hasIdx(d3.attackers, p.idx)
     THEN [attacks EXCEPT ![sq].depth2.attackers =
             Append(@, [idx |-> p.idx, color |-> p.piece.color])]
     ELSE attacks

\* the if of the depth-3 loop, for one target [ar, ac]
addDepth3(attacks, sq, p) ==
  LET d1 == attacks[sq].depth1
      d2 == attacks[sq].depth2
      d3 == attacks[sq].depth3
  IN IF ~hasIdx(d1.attackers, p.idx) /\ ~hasIdx(d1.defenders, p.idx)
        /\ ~hasIdx(d2.attackers, p.idx) /\ ~hasIdx(d3.attackers, p.idx)
     THEN [attacks EXCEPT ![sq].depth3.attackers =
             Append(@, [idx |-> p.idx, color |-> p.piece.color])]
     ELSE attacks

\* for (const [ar, ac] of futureAttacks) of the depth-3 loop
RECURSIVE pushDepth3(_, _, _, _, _)
pushDepth3(attacks, targets, lo, hi, p) ==
  IF lo > hi \/ DOMAIN attacks = {} THEN attacks
  ELSE IF lo = hi THEN addDepth3(attacks, targets[lo], p)
  ELSE pushDepth3(pushDepth3(attacks, targets, lo, (lo + hi) \div 2, p),
                  targets, ((lo + hi) \div 2) + 1, hi, p)

\* the body of the loop over possibleMoves2: no board is passed
move2Depth3(attacks, move2, p) ==
  LET futureAttacks == getAttackedSquares(p.piece, move2[1], move2[2], NoBoard)
  IN pushDepth3(attacks, futureAttacks, 1, Len(futureAttacks), p)

\* for (const [moveRow2, moveCol2] of possibleMoves2)
RECURSIVE moves2Depth3(_, _, _, _, _)
moves2Depth3(attacks, possibleMoves2, lo, hi, p) ==
  IF lo > hi \/ DOMAIN attacks = {} THEN attacks
  ELSE IF lo = hi THEN move2Depth3(attacks, possibleMoves2[lo], p)
  ELSE moves2Depth3(moves2Depth3(attacks, possibleMoves2, lo, (lo + hi) \div 2, p),
                    possibleMoves2, ((lo + hi) \div 2) + 1, hi, p)

\* move1Depth3 moving the piece on to its attacked squares, as
\* src/utils/pieceLogic.js does (level2Attacks)
move1Depth3FromAttacks(attacks, move1, p) ==
  LET possibleMoves2 == getAttackedSquares(p.piece, move1[1], move1[2], NoBoard)
  IN moves2Depth3(attacks, possibleMoves2, 1, Len(possibleMoves2), p)

\* the body of the loop over possibleMoves1: getMoveSquares without a board
move1Depth3(attacks, move1, p) ==
  LET possibleMoves2 == getMoveSquares(p.piece, move1[1], move1[2], NoBoard)
  IN moves2Depth3(attacks, possibleMoves2, 1, Len(possibleMoves2), p)

\* for (const [moveRow1, moveCol1] of possibleMoves1)
RECURSIVE moves1Depth3(_, _, _, _, _)
moves1Depth3(attacks, possibleMoves1, lo, hi, p) ==
  IF lo > hi \/ DOMAIN attacks = {} THEN attacks
  ELSE IF lo = hi THEN move1Depth3(attacks, possibleMoves1[lo], p)
  ELSE moves1Depth3(moves1Depth3(attacks, possibleMoves1, lo, (lo + hi) \div 2, p),
                    possibleMoves1, ((lo + hi) \div 2) + 1, hi, p)

stepDepth3(attacks, p, b) ==
  LET possibleMoves1 == getMoveSquares(p.piece, p.row, p.col, <<b>>)
  IN moves1Depth3(attacks, possibleMoves1, 1, Len(possibleMoves1), p)

RECURSIVE depth3Loop(_, _, _, _, _)
depth3Loop(attacks, pieces, lo, hi, b) ==
  IF lo > hi \/ DOMAIN attacks = {} THEN attacks
  ELSE IF lo = hi THEN stepDepth3(attacks, pieces[lo], b)
  ELSE depth3Loop(depth3Loop(attacks, pieces, lo, (lo + hi) \div 2, b),
                  pieces, ((lo + hi) \div 2) + 1, hi, b)

\* calculateAttacksWithDepth without its two early returns
calculateAttacksWithDepthNoReturn(b, maxDepth) ==
  LET pieces == piecesOf(b)
      level1 == depth1Loop(EmptyDepthGrid, pieces, 1, Len(pieces), b)
      level2 == depth2Loop(level1, pieces, 1, Len(pieces), b)
  IN [attacks |-> depth3Loop(level2, pieces, 1, Len(pieces), b),
      pieceColorMap |-> collectColors({}, pieces, 1, Len(pieces))]

\* calculateAttacksWithDepth returning after depth 1 for maxDepth === 1 only
calculateAttacksWithDepthExact(b, maxDepth) ==
  LET pieces == piecesOf(b)
      level1 == depth1Loop(EmptyDepthGrid, pieces, 1, Len(pieces), b)
      level2 == depth2Loop(level1, pieces, 1, Len(pieces), b)
      level3 == depth3Loop(level2, pieces, 1, Len(pieces), b)
  IN [attacks |-> IF maxDepth = 1 THEN level1
                  ELSE IF maxDepth = 2 THEN level2
                  ELSE level3,
      pieceColorMap |-> collectColors({}, pieces, 1, Len(pieces))]

\* returns the grid and the module-level map as the call leaves it
\* (pieceColorMap.clear() first)
calculateAttacksWithDepth(b, maxDepth) ==
  LET pieces == piecesOf(b)
      level1 == depth1Loop(EmptyDepthGrid, pieces, 1, Len(pieces), b)
      level2 == depth2Loop(level1, pieces, 1, Len(pieces), b)
      level3 == depth3Loop(level2, pieces, 1, Len(pieces), b)
  IN [attacks |-> IF maxDepth < 2 THEN level1
                  ELSE IF maxDepth < 3 THEN level2
                  ELSE level3,
      pieceColorMap |-> collectColors({}, pieces, 1, Len(pieces))]

----------------------------------------------------------------------------
(* Inputs *)

MaxPieces == 2

\* d4, d6, b1
PlaceSquares == {<<4, 3>>, <<2, 3>>, <<7, 1>>}

\* pieces as App.jsx builds them (type, color, pieceIndex), two of them with
\* the identity of another, and one that carries no pieceIndex
Palette ==
  {[type |-> "rook", color |-> "white", pieceIndex |-> 0],
   [type |-> "pawn", color |-> "white", pieceIndex |-> 1],
   [type |-> "pawn", color |-> "black", pieceIndex |-> 2],
   [type |-> "knight", color |-> "white", pieceIndex |-> 0],
   [type |-> "king", color |-> "black", pieceIndex |-> 1],
   [type |-> "knight", color |-> "black"]}

BoardsOver(squares, pieces, n) ==
  UNION {[S -> pieces] : S \in {T \in SUBSET squares : Cardinality(T) <= n}}

InputBoards == BoardsOver(PlaceSquares, Palette, MaxPieces)

NoCall == [op |-> "none"]

\* saved remembers the first call of calculateAllAttacks: the board it was
\* given and the grid it returned, and whether an aggregator call on
\* another board has been made since
NotSaved == [set |-> FALSE]

saveBetween(b) ==
  IF saved.set /\ b # saved.board THEN [saved EXCEPT !.between = TRUE]
  ELSE saved

saveFirst(b, attacks) ==
  IF saved.set THEN saveBetween(b)
  ELSE [set |-> TRUE, board |-> b, attacks |-> attacks, between |-> FALSE]

----------------------------------------------------------------------------
(* The aggregator applied to a board: each action is one call.  call is    *)
(* the call made last, with the board as it was passed; result is what it  *)
(* returned.                                                               *)

Init ==
  /\ board \in InputBoards
  /\ pieceColorMap = {}
  /\ args = <<>>
  /\ call = NoCall
  /\ result = <<>>
  /\ saved = NotSaved
  /\ nextPieceIndex = 0
  /\ draggedPiece = <<>>
  /\ ops = 0

\* calculateAllAttacks handing out the grid of the call before
ComputeDirectSharedGrid ==
  \E returned \in {LET pieces == piecesOf(board)
                   IN scanDirect([attacks |-> IF call.op = "calculateAllAttacks"
                                                THEN result ELSE EmptyDirectGrid,
                                  pieceColorMap |-> {}],
                                 pieces, 1, Len(pieces), board)} :
    /\ call' = [op |-> "calculateAllAttacks", board |-> board]
    /\ result' = returned.attacks
    /\ pieceColorMap' = returned.pieceColorMap
    /\ board' = board
    /\ args' = args
    /\ saved' = saveFirst(board, returned.attacks)
    /\ UNCHANGED appVars

\* calculateAllAttacks writing the identity it read, idx, into the piece
ComputeDirectAssignsIndex ==
  \E returned \in {calculateAllAttacks(board)} :
    /\ call' = [op |-> "calculateAllAttacks", board |-> board]
    /\ result' = returned.attacks
    /\ pieceColorMap' = returned.pieceColorMap
    /\ board' = [sq \in DOMAIN board |->
                   [type |-> board[sq].type, color |-> board[sq].color,
                    pieceIndex |-> idxOf(board[sq])]]
    /\ args' = args
    /\ saved' = saveFirst(board, returned.attacks)
    /\ UNCHANGED appVars

ComputeDirect ==
  \E returned \in {calculateAllAttacks(board)} :
    /\ call' = [op |-> "calculateAllAttacks", board |-> board]
    /\ result' = returned.attacks
    /\ pieceColorMap' = returned.pieceColorMap
    /\ board' = board
    /\ args' = args
    /\ saved' = saveFirst(board, returned.attacks)
    /\ UNCHANGED appVars

ComputeWithDepth(maxDepth) ==
  \E returned \in {calculateAttacksWithDepth(board, maxDepth)} :
    /\ call' = [op |-> "calculateAttacksWithDepth", board |-> board, maxDepth |-> maxDepth]
    /\ result' = returned.attacks
    /\ pieceColorMap' = returned.pieceColorMap
    /\ board' = board
    /\ args' = args
    /\ saved' = saveBetween(board)
    /\ UNCHANGED appVars

ComputeCounts ==
  \E returned \in {calculateAttackCounts(board)} :
    /\ call' = [op |-> "calculateAttackCounts", board |-> board]
    /\ result' = returned.attacks
    /\ pieceColorMap' = returned.pieceColorMap
    /\ board' = board
    /\ args' = args
    /\ saved' = saveBetween(board)
    /\ UNCHANGED appVars

Next ==
  \/ ComputeDirect
  \/ \E maxDepth \in 1..3 : ComputeWithDepth(maxDepth)

Spec == Init /\ [][Next]_vars

----------------------------------------------------------------------------
(* The geometry functions applied to a piece, an origin and an optional    *)
(* board: each action is one call.  args is the piece and the origin the   *)
(* caller asks about, board the board it holds.                            *)

\* d6, d5, d4, d3
BlockSquares == {<<2, 3>>, <<3, 3>>, <<4, 3>>, <<5, 3>>}

Blockers ==
  {[type |-> "pawn", color |-> "white", pieceIndex |-> 0],
   [type |-> "pawn", color |-> "black", pieceIndex |-> 1]}

AttackBoards == BoardsOver(BlockSquares, Blockers, MaxPieces)

\* the piece asked about: its type, and its colour where the code reads it
AttackPieces ==
  {[type |-> t, color |-> "white"] : t \in PIECE_TYPES}
  \cup {[type |-> "pawn", color |-> "black"]}

AttackInit ==
  /\ board \in AttackBoards
  /\ pieceColorMap = {}
  /\ args \in [piece : AttackPieces, row : 0..(BoardSize - 1), col : 0..(BoardSize - 1)]
  /\ call = NoCall
  /\ result = <<>>
  /\ saved = NotSaved
  /\ nextPieceIndex = 0
  /\ draggedPiece = <<>>
  /\ ops = 0

GetAttackedSquares(piece, row, col, optBoard) ==
  /\ call' = [op |-> "getAttackedSquares", piece |-> piece, row |-> row, col |-> col,
              board |-> optBoard]
  /\ result' = getAttackedSquares(piece, row, col, optBoard)
  /\ UNCHANGED <<board, pieceColorMap, args, saved, appVars>>

GetMoveSquares(piece, row, col, optBoard) ==
  /\ call' = [op |-> "getMoveSquares", piece |-> piece, row |-> row, col |-> col,
              board |-> optBoard]
  /\ result' = getMoveSquares(piece, row, col, optBoard)
  /\ UNCHANGED <<board, pieceColorMap, args, saved, appVars>>

AttackNext ==
  \E optBoard \in {NoBoard, <<board>>} :
    \/ GetAttackedSquares(args.piece, args.row, args.col, optBoard)
    \/ GetMoveSquares(args.piece, args.row, args.col, optBoard)

SpecAttack == AttackInit /\ [][AttackNext]_vars

----------------------------------------------------------------------------
(* A caller that holds a board, replaces it between calls, and calls the   *)
(* five core operations on the board it holds, the geometry functions for  *)
(* the pieces of that board.                                               *)

\* d4, d6
CallSquares == {<<4, 3>>, <<2, 3>>}

CallPieces ==
  {[type |-> "pawn", color |-> "white", pieceIndex |-> 0],
   [type |-> "pawn", color |-> "black"]}

CallBoards == BoardsOver(CallSquares, CallPieces, MaxPieces)

CallsInit ==
  /\ board \in CallBoards
  /\ pieceColorMap = {}
  /\ args = <<>>
  /\ call = NoCall
  /\ result = <<>>
  /\ saved = NotSaved
  /\ nextPieceIndex = 0
  /\ draggedPiece = <<>>
  /\ ops = 0

\* setBoard: the caller's board becomes another board
SetBoard(newBoard) ==
  /\ board' = newBoard
  /\ UNCHANGED <<pieceColorMap, args, call, result, saved, appVars>>

CallsNext ==
  \/ ComputeDirect
  \/ \E maxDepth \in 1..3 : ComputeWithDepth(maxDepth)
  \/ ComputeCounts
  \/ \E sq \in DOMAIN board : GetAttackedSquares(board[sq], sq[1], sq[2], <<board>>)
  \/ \E sq \in DOMAIN board : GetMoveSquares(board[sq], sq[1], sq[2], <<board>>)
  \/ \E newBoard \in CallBoards : SetBoard(newBoard)

SpecCalls == CallsInit /\ [][CallsNext]_vars

----------------------------------------------------------------------------
(* The aggregator called to depth 1 and 2 on boards of pieces of all six   *)
(* types and both colours, each with an identity of its own.               *)

\* d2, d4, c7
ShallowSquares == {<<6, 3>>, <<4, 3>>, <<1, 2>>}

TypeOrder == <<"king", "queen", "rook", "bishop", "knight", "pawn">>

ShallowPieces ==
  {[type |-> TypeOrder[i], color |-> "white", pieceIndex |-> i - 1] : i \in 1..6}
  \cup {[type |-> TypeOrder[i], color |-> "black", pieceIndex |-> i + 5] : i \in 1..6}

ShallowBoards == BoardsOver(ShallowSquares, ShallowPieces, MaxPieces)

ShallowInit ==
  /\ board \in ShallowBoards
  /\ pieceColorMap = {}
  /\ args = <<>>
  /\ call = NoCall
  /\ result = <<>>
  /\ saved = NotSaved
  /\ nextPieceIndex = 0
  /\ draggedPiece = <<>>
  /\ ops = 0

ShallowNext == \E maxDepth \in 1..2 : ComputeWithDepth(maxDepth)

SpecShallow == ShallowInit /\ [][ShallowNext]_vars

----------------------------------------------------------------------------
(* The aggregator called with any maxDepth, in and out of 1..3.            *)

MinDepthInput == -1

MaxDepthInput == 5

DepthInputs == MinDepthInput..MaxDepthInput

ClampPieces ==
  {[type |-> "knight", color |-> "white", pieceIndex |-> 0],
   [type |-> "pawn", color |-> "black", pieceIndex |-> 1]}

ClampBoards == BoardsOver(PlaceSquares, ClampPieces, MaxPieces)

ClampInit ==
  /\ board \in ClampBoards
  /\ pieceColorMap = {}
  /\ args = <<>>
  /\ call = NoCall
  /\ result = <<>>
  /\ saved = NotSaved
  /\ nextPieceIndex = 0
  /\ draggedPiece = <<>>
  /\ ops = 0

ClampNext == \E maxDepth \in DepthInputs : ComputeWithDepth(maxDepth)

SpecClamp == ClampInit /\ [][ClampNext]_vars

----------------------------------------------------------------------------
(* The aggregator applied to the boards of the scenarios: the starting     *)
(* position, the empty board, and a board that holds one piece, on any     *)
(* square.                                                                 *)

backRow == <<"rook", "knight", "bishop", "queen", "king", "bishop", "knight", "rook">>

\* the board and the next free identity; idx++ runs over rows 0, 1, 6, 7
createStartingBoard ==
  [board |->
     [sq \in {0, 1, 6, 7} \X (0..(BoardSize - 1)) |->
        CASE sq[1] = 0 -> [type |-> backRow[sq[2] + 1], color |-> "black",
                           pieceIndex |-> sq[2]]
          [] sq[1] = 1 -> [type |-> "pawn", color |-> "black",
                           pieceIndex |-> BoardSize + sq[2]]
          [] sq[1] = 6 -> [type |-> "pawn", color |-> "white",
                           pieceIndex |-> (2 * BoardSize) + sq[2]]
          [] sq[1] = 7 -> [type |-> backRow[sq[2] + 1], color |-> "white",
                           pieceIndex |-> (3 * BoardSize) + sq[2]]],
   nextIndex |-> 4 * BoardSize]

\* Array(8).fill(null).map(() => Array(8).fill(null))
EmptyBoard == [sq \in {} |-> <<>>]

\* the piece ChessViz.addPiece puts on a board: the type is typeMap[type] or
\* else the given word in lower case, whatever it is
LonePieces ==
  {[type |-> "rook", color |-> "white", pieceIndex |-> 0],
   [type |-> "rook", color |-> "black", pieceIndex |-> 3],
   [type |-> "knight", color |-> "white", pieceIndex |-> 0],
   [type |-> "knight", color |-> "black"],
   [type |-> "dragon", color |-> "white", pieceIndex |-> 0]}

LoneBoards == {[sq \in {at} |-> piece] : at \in Squares, piece \in LonePieces}

ScenarioBoards == {createStartingBoard.board, EmptyBoard} \cup LoneBoards

ScenarioInit ==
  /\ board \in ScenarioBoards
  /\ pieceColorMap = {}
  /\ args = <<>>
  /\ call = NoCall
  /\ result = <<>>
  /\ saved = NotSaved
  /\ nextPieceIndex = 0
  /\ draggedPiece = <<>>
  /\ ops = 0

SpecScenario == ScenarioInit /\ [][Next]_vars

----------------------------------------------------------------------------
(* The app (App.jsx): the board it holds, the next-identity counter        *)
(* nextPieceIndex.current and the piece being dragged.  A string is the    *)
(* sequence of its characters, a comma-separated string the sequence of    *)
(* the strings split(',') yields, undefined / null / NaN the empty         *)
(* sequence <<>> and a value that may be one of them <<v>>.  Each action   *)
(* is one handler or one ChessViz call; call is the handler run last with  *)
(* the board, the counter and the dragged piece it found.                  *)

Letters == <<"a", "b", "c", "d", "e", "f", "g", "h", "i", "j", "k", "l", "m",
             "n", "o", "p", "q", "r", "s", "t", "u", "v", "w", "x", "y", "z">>

Capitals == <<"A", "B", "C", "D", "E", "F", "G", "H", "I", "J", "K", "L", "M",
              "N", "O", "P", "Q", "R", "S", "T", "U", "V", "W", "X", "Y", "Z">>

Digits == <<"0", "1", "2", "3", "4", "5", "6", "7", "8", "9">>

\* String.prototype.toLowerCase on one character
toLowerCase(ch) ==
  IF \E i \in DOMAIN Capitals : Capitals[i] = ch
    THEN Letters[CHOOSE i \in DOMAIN Capitals : Capitals[i] = ch]
    ELSE ch

\* String.prototype.toUpperCase on one character
toUpperCase(ch) ==
  IF \E i \in DOMAIN Letters : Letters[i] = ch
    THEN Capitals[CHOOSE i \in DOMAIN Letters : Letters[i] = ch]
    ELSE ch

\* parseInt on one character: <<n>>, or <<>> for NaN
parseInt(ch) ==
  IF \E i \in DOMAIN Digits : Digits[i] = ch
    THEN <<(CHOOSE i \in DOMAIN Digits : Digits[i] = ch) - 1>>
    ELSE <<>>

RECURSIVE trimStart(_)
trimStart(str) ==
  IF str # <<>> /\ Head(str) = " " THEN trimStart(Tail(str)) ELSE str

RECURSIVE trimEnd(_)
trimEnd(str) ==
  IF str # <<>> /\ str[Len(str)] = " "
    THEN trimEnd(SubSeq(str, 1, Len(str) - 1))
    ELSE str

\* String.prototype.trim
trim(str) == trimEnd(trimStart(str))

\* a string of characters as one word
RECURSIVE wordOf(_)
wordOf(str) == IF str = <<>> THEN "" ELSE Head(str) \o wordOf(Tail(str))

pieceMap == [k |-> "king", q |-> "queen", r |-> "rook", b |-> "bishop",
             n |-> "knight", p |-> "pawn"]

files == [a |-> 0, b |-> 1, c |-> 2, d |-> 3, e |-> 4, f |-> 5, g |-> 6, h |-> 7]

typeMap == [K |-> "king", Q |-> "queen", R |-> "rook", B |-> "bishop",
            N |-> "knight", P |-> "pawn"]

\* newBoard[row][col] = piece on a copy of the board
putPiece(prev, sq, piece) ==
  [s \in (DOMAIN prev) \cup {sq} |-> IF s = sq THEN piece ELSE prev[s]]

\* removePiece keeping the square and emptying the others
removePieceOthers(prev, sq) == [s \in {sq} \cap DOMAIN prev |-> prev[s]]

\* newBoard[row][col] = null on a copy of the board
removePiece(prev, sq) == [s \in (DOMAIN prev) \ {sq} |-> prev[s]]

\* the body of the forEach over the split string: acc is the board and the
\* index so far
placeParsed(acc, str) ==
  LET piece == trim(str) IN
  IF Len(piece) < 3 THEN acc
  ELSE
    LET pieceLetter == piece[1]
        file == toLowerCase(piece[2])
        rank == parseInt(piece[3])
        lower == toLowerCase(pieceLetter)
        color == IF pieceLetter = toUpperCase(pieceLetter) THEN "white" ELSE "black"
    IN
    IF /\ lower \in DOMAIN pieceMap
       /\ file \in DOMAIN files
       /\ rank # <<>>
       /\ BoardSize - rank[1] >= 0
       /\ BoardSize - rank[1] < BoardSize
      THEN [board |-> putPiece(acc.board, <<BoardSize - rank[1], files[file]>>,
                               [type |-> pieceMap[lower], color |-> color,
                                pieceIndex |-> acc.nextIndex]),
            nextIndex |-> acc.nextIndex + 1]
      ELSE acc

RECURSIVE parsePiecesFrom(_, _)
parsePiecesFrom(acc, strs) ==
  IF strs = <<>> THEN acc
  ELSE parsePiecesFrom(placeParsed(acc, Head(strs)), Tail(strs))

\* the empty board filled from a comma-separated string, indices from 0
parsePieces(strs) == parsePiecesFrom([board |-> EmptyBoard, nextIndex |-> 0], strs)

\* the empty string, the one falsy value of a parameter that is present
EmptyString == << <<>> >>

\* piecesParam is <<>> (no parameter) or <<string>>; board is <<>> for null
parseUrlParams(piecesParam) ==
  IF piecesParam # <<>> /\ piecesParam[1] # EmptyString
    THEN LET parsed == parsePieces(piecesParam[1])
         IN [board |-> <<parsed.board>>, nextIndex |-> parsed.nextIndex]
    ELSE [board |-> <<>>, nextIndex |-> 0]

\* urlState?.board ? urlState : defaultState
initialState(piecesParam) ==
  LET urlState == parseUrlParams(piecesParam) IN
  IF urlState.board # <<>>
    THEN [board |-> urlState.board[1], nextIndex |-> urlState.nextIndex]
    ELSE createStartingBoard

\* { ...piece, fromBoard, row, col }: at is <<>> where row and col are null
dragged(piece, fromBoard, at) ==
  [piece |-> piece, fromBoard |-> fromBoard, at |-> at]

\* drop without the ++ of the palette branch
dropKeepsCounter(prev, counter, drag, sq) ==
  IF drag.fromBoard /\ drag.at # <<>>
    THEN LET existingPiece == IF drag.at \in DOMAIN prev THEN <<prev[drag.at]>> ELSE <<>>
         IN [board |-> putPiece(removePiece(prev, drag.at), sq,
                                [type |-> drag.piece.type, color |-> drag.piece.color,
                                 pieceIndex |-> IF existingPiece # <<>>
                                                  THEN existingPiece[1].pieceIndex
                                                  ELSE counter]),
             nextIndex |-> IF existingPiece # <<>> THEN counter ELSE counter + 1]
    ELSE [board |-> putPiece(prev, sq,
                             [type |-> drag.piece.type, color |-> drag.piece.color,
                              pieceIndex |-> counter]),
          nextIndex |-> counter]

\* the updater of handleDrop: the board and the counter after the drop
drop(prev, counter, drag, sq) ==
  IF drag.fromBoard /\ drag.at # <<>>
    THEN LET existingPiece == IF drag.at \in DOMAIN prev THEN <<prev[drag.at]>> ELSE <<>>
         IN [board |-> putPiece(removePiece(prev, drag.at), sq,
                                [type |-> drag.piece.type, color |-> drag.piece.color,
                                 pieceIndex |-> IF existingPiece # <<>>
                                                  THEN existingPiece[1].pieceIndex
                                                  ELSE counter]),
             nextIndex |-> IF existingPiece # <<>> THEN counter ELSE counter + 1]
    ELSE [board |-> putPiece(prev, sq,
                             [type |-> drag.piece.type, color |-> drag.piece.color,
                              pieceIndex |-> counter]),
          nextIndex |-> counter + 1]

\* the palette pieces the user drags, two of the twelve
DragPieces ==
  {[type |-> "rook", color |-> "white"], [type |-> "pawn", color |-> "black"]}

\* the squares the user acts on: d4 and b1
ActSquares == {<<4, 3>>, <<7, 1>>}

MaxOps == 5

\* the strings given as the pieces parameter and to ChessViz.setPieces:
\* "", "Rd4,pd4", "Rb1,xd4, nD4" and "Qd9,Kz4,Rd"
PieceStrings ==
  {EmptyString,
   << <<"R", "d", "4">>, <<"p", "d", "4">> >>,
   << <<"R", "b", "1">>, <<"x", "d", "4">>, <<" ", "n", "D", "4">> >>,
   << <<"Q", "d", "9">>, <<"K", "z", "4">>, <<"R", "d">> >>}

UrlParams == {<<>>} \cup {<<str>> : str \in PieceStrings}

\* the arguments of ChessViz.addPiece: type, square, color
AddPieceArgs ==
  {<< <<"r">>, <<"d", "4">>, "white" >>,
   << <<"D", "r", "a", "g", "o", "n">>, <<"B", "1">>, "black" >>,
   << <<"N">>, <<"z", "4">>, "white" >>,
   << <<"q">>, <<"d", "9">>, "white" >>}

\* what every handler records of the state it found
found(op) ==
  [op |-> op, board |-> board, nextIndex |-> nextPieceIndex, dragged |-> draggedPiece]

coreVars == <<pieceColorMap, args, result, saved>>

\* App(): the first render
AppInit ==
  /\ \E piecesParam \in UrlParams :
       /\ board = initialState(piecesParam).board
       /\ nextPieceIndex = initialState(piecesParam).nextIndex
       /\ call = [op |-> "App", piecesParam |-> piecesParam]
  /\ draggedPiece = <<>>
  /\ ops = 0
  /\ pieceColorMap = {}
  /\ args = <<>>
  /\ result = <<>>
  /\ saved = NotSaved

\* dragging a palette piece: onDragStart(piece)
HandleDragStartPalette(piece) ==
  /\ ops < MaxOps
  /\ draggedPiece' = <<dragged(piece, FALSE, <<>>)>>
  /\ call' = found("handleDragStart")
  /\ ops' = ops + 1
  /\ UNCHANGED <<board, nextPieceIndex, coreVars>>

\* ChessBoard.handleDragStart on a piece of the board
HandleDragStartBoard(sq) ==
  /\ ops < MaxOps
  /\ sq \in DOMAIN board
  /\ draggedPiece' = <<dragged(board[sq], TRUE, sq)>>
  /\ call' = found("handleDragStart")
  /\ ops' = ops + 1
  /\ UNCHANGED <<board, nextPieceIndex, coreVars>>

\* ChessBoard.handleDrop on a square, then App.handleDrop
HandleDrop(sq) ==
  /\ ops < MaxOps
  /\ draggedPiece # <<>>
  /\ \E after \in {drop(board, nextPieceIndex, draggedPiece[1], sq)} :
       /\ board' = after.board
       /\ nextPieceIndex' = after.nextIndex
  /\ draggedPiece' = <<>>
  /\ call' = found("handleDrop") @@ [at |-> sq]
  /\ ops' = ops + 1
  /\ UNCHANGED coreVars

HandleDragEnd ==
  /\ ops < MaxOps
  /\ draggedPiece' = <<>>
  /\ call' = found("handleDragEnd")
  /\ ops' = ops + 1
  /\ UNCHANGED <<board, nextPieceIndex, coreVars>>

\* ChessBoard.handleContextMenu on a square, then App.handleRemovePiece
HandleContextMenu(sq) ==
  /\ ops < MaxOps
  /\ sq \in DOMAIN board
  /\ board' = removePiece(board, sq)
  /\ call' = found("handleContextMenu") @@ [at |-> sq]
  /\ ops' = ops + 1
  /\ UNCHANGED <<nextPieceIndex, draggedPiece, coreVars>>

\* a drop that reaches the app's own element
HandleDropOutside ==
  /\ ops < MaxOps
  /\ board' = IF draggedPiece # <<>> /\ draggedPiece[1].fromBoard
                   /\ draggedPiece[1].at # <<>>
                THEN removePiece(board, draggedPiece[1].at)
                ELSE board
  /\ draggedPiece' = <<>>
  /\ call' = found("handleDropOutside")
  /\ ops' = ops + 1
  /\ UNCHANGED <<nextPieceIndex, coreVars>>

HandleClearBoard ==
  /\ ops < MaxOps
  /\ board' = EmptyBoard
  /\ nextPieceIndex' = 0
  /\ call' = found("handleClearBoard")
  /\ ops' = ops + 1
  /\ UNCHANGED <<draggedPiece, coreVars>>

\* builds the board createStartingBoard builds, with the same loops
HandleSetupBoard ==
  /\ ops < MaxOps
  /\ board' = createStartingBoard.board
  /\ nextPieceIndex' = createStartingBoard.nextIndex
  /\ call' = found("handleSetupBoard")
  /\ ops' = ops + 1
  /\ UNCHANGED <<draggedPiece, coreVars>>

\* ChessViz.setPieces(piecesStr)
SetPieces(piecesStr) ==
  /\ ops < MaxOps
  /\ board' = parsePieces(piecesStr).board
  /\ nextPieceIndex' = parsePieces(piecesStr).nextIndex
  /\ call' = found("setPieces") @@ [piecesStr |-> piecesStr]
  /\ ops' = ops + 1
  /\ UNCHANGED <<draggedPiece, coreVars>>

\* ChessViz.addPiece(type, square, color)
AddPiece(type, square, color) ==
  /\ ops < MaxOps
  /\ LET file == toLowerCase(square[1])
         rank == parseInt(square[2])
         upper == [i \in DOMAIN type |-> toUpperCase(type[i])]
         lower == [i \in DOMAIN type |-> toLowerCase(type[i])]
     IN
     IF /\ file \in DOMAIN files
        /\ rank # <<>>
        /\ BoardSize - rank[1] >= 0
        /\ BoardSize - rank[1] < BoardSize
       THEN /\ board' = putPiece(board, <<BoardSize - rank[1], files[file]>>,
                                 [type |-> IF Len(upper) = 1 /\ upper[1] \in DOMAIN typeMap
                                             THEN typeMap[upper[1]]
                                             ELSE wordOf(lower),
                                  color |-> color,
                                  pieceIndex |-> nextPieceIndex])
            /\ nextPieceIndex' = nextPieceIndex + 1
       ELSE UNCHANGED <<board, nextPieceIndex>>
  /\ call' = found("addPiece") @@ [type |-> type, square |-> square, color |-> color]
  /\ ops' = ops + 1
  /\ UNCHANGED <<draggedPiece, coreVars>>

\* ChessViz.clearBoard()
ClearBoard ==
  /\ ops < MaxOps
  /\ board' = EmptyBoard
  /\ nextPieceIndex' = 0
  /\ call' = found("clearBoard")
  /\ ops' = ops + 1
  /\ UNCHANGED <<draggedPiece, coreVars>>

AppNext ==
  \/ \E piece \in DragPieces : HandleDragStartPalette(piece)
  \/ \E sq \in ActSquares : HandleDragStartBoard(sq)
  \/ \E sq \in ActSquares : HandleDrop(sq)
  \/ HandleDragEnd
  \/ \E sq \in ActSquares : HandleContextMenu(sq)
  \/ HandleDropOutside
  \/ HandleClearBoard
  \/ HandleSetupBoard
  \/ \E piecesStr \in PieceStrings : SetPieces(piecesStr)
  \/ \E a \in AddPieceArgs : AddPiece(a[1], a[2], a[3])
  \/ ClearBoard

SpecApp == AppInit /\ [][AppNext]_vars

----------------------------------------------------------------------------
(* Claims *)

Abs(x) == IF x < 0 THEN -x ELSE x

Range(seq) == {seq[i] : i \in 1..Len(seq)}

UnitSteps == {d \in (-1..1) \X (-1..1) : d # <<0, 0>>}

\* the rays of a rook are the orthogonal unit steps, of a bishop the
\* diagonal ones, of a queen all eight
RaysOf(type) ==
  CASE type = "rook"   -> {d \in UnitSteps : Abs(d[1]) + Abs(d[2]) = 1}
    [] type = "bishop" -> {d \in UnitSteps : Abs(d[1]) + Abs(d[2]) = 2}
    [] type = "queen"  -> UnitSteps

Along(row, col, d, k) == <<row + k * d[1], col + k * d[2]>>

\* the k-th square of the ray is on the board and nothing stands before it
ReachedOnRay(b, row, col, d, k) ==
  /\ Along(row, col, d, k) \in Squares
  /\ \A j \in 1..(k - 1) : Along(row, col, d, j) \notin DOMAIN b

SliderCallWithBoard ==
  /\ call.op = "getAttackedSquares"
  /\ call.piece.type \in {"rook", "bishop", "queen"}
  /\ Len(call.board) = 1

\* C1: for a rook, bishop or queen at any origin and any board supplied,
\* the attack set is exactly, along each of the piece's rays, the on-board
\* squares from the one next to the origin up to and including the first
\* occupied square, and nothing beyond it, whatever the blocker's colour.
C1_SlidingOcclusion ==
  SliderCallWithBoard =>
    Range(result) =
      {Along(call.row, call.col, d, k) : d \in RaysOf(call.piece.type), k \in 1..(BoardSize - 1)}
      \cap {sq \in Squares :
              \E d \in RaysOf(call.piece.type), k \in 1..(BoardSize - 1) :
                /\ sq = Along(call.row, call.col, d, k)
                /\ ReachedOnRay(call.board[1], call.row, call.col, d, k)}

\* a first blocker at step k of ray d, of the given colour, with the board
\* going on behind it: the blocker is attacked, the square behind it is not
StopsAt(d, k, color) ==
  /\ ReachedOnRay(call.board[1], call.row, call.col, d, k)
  /\ Along(call.row, call.col, d, k) \in DOMAIN call.board[1]
  /\ call.board[1][Along(call.row, call.col, d, k)].color = color
  /\ Along(call.row, call.col, d, k + 1) \in Squares
  /\ Along(call.row, call.col, d, k) \in Range(result)
  /\ Along(call.row, call.col, d, k + 1) \notin Range(result)

\* a slider stopped by a piece of its colour on one ray and by a piece of
\* the other colour on another
C1_Witness ==
  /\ SliderCallWithBoard
  /\ \E d \in RaysOf(call.piece.type), k \in 1..(BoardSize - 2) : StopsAt(d, k, "white")
  /\ \E d \in RaysOf(call.piece.type), k \in 1..(BoardSize - 2) : StopsAt(d, k, "black")

----------------------------------------------------------------------------
(* Claims about the aggregator *)

IsDirect == call.op = "calculateAllAttacks"

IsDepth == call.op = "calculateAttacksWithDepth"

\* what a piece leaves on a square it reaches: its identity and its colour
Contribution(piece) == [idx |-> idxOf(piece), color |-> piece.color]

AttackSetOf(b, sq) == Range(getAttackedSquares(b[sq], sq[1], sq[2], <<b>>))

\* C2: in computeDirect, for every piece P of the board and every square S
\* of P's occlusion-aware attack set, P is recorded in S's defenders and not
\* in S's attackers if S holds a piece of P's colour, and in S's attackers
\* and not in S's defenders if S is empty or holds a piece of the other colour.
C2_DirectClassification ==
  IsDirect =>
    \A from \in DOMAIN call.board :
      \A S \in AttackSetOf(call.board, from) :
        LET P == call.board[from]
            own == S \in DOMAIN call.board /\ call.board[S].color = P.color
        IN /\ own => /\ Contribution(P) \in Range(result[S].defenders)
                     /\ Contribution(P) \notin Range(result[S].attackers)
           /\ ~own => /\ Contribution(P) \in Range(result[S].attackers)
                      /\ Contribution(P) \notin Range(result[S].defenders)

\* Scenario C: a white rook on d4 and a white pawn on d6; the rook defends
\* d6, attacks d5, and reaches neither d7 nor d8
C2_Witness ==
  /\ IsDirect
  /\ DOMAIN call.board = {<<4, 3>>, <<2, 3>>}
  /\ call.board[<<4, 3>>].type = "rook" /\ call.board[<<4, 3>>].color = "white"
  /\ call.board[<<2, 3>>].type = "pawn" /\ call.board[<<2, 3>>].color = "white"
  /\ Contribution(call.board[<<4, 3>>]) \in Range(result[<<2, 3>>].defenders)
  /\ Contribution(call.board[<<4, 3>>]) \in Range(result[<<3, 3>>].attackers)
  /\ result[<<1, 3>>] = EmptyCell
  /\ result[<<0, 3>>].defenders = <<>>

Levels == {"depth1", "depth2", "depth3"}

\* the identities a square holds at a level, attackers and defenders
IdxsAt(cell, level) ==
  {a.idx : a \in Range(cell[level].attackers) \cup Range(cell[level].defenders)}

\* C3: in the grid of computeWithDepth, for any board and maxDepth, the
\* levels of a square are pairwise disjoint: an identity of depth 1 is in
\* neither depth 2 nor depth 3, an identity of depth 2 is not in depth 3.
C3_LevelsDisjoint ==
  IsDepth =>
    \A sq \in Squares :
      /\ IdxsAt(result[sq], "depth1") \cap IdxsAt(result[sq], "depth2") = {}
      /\ IdxsAt(result[sq], "depth1") \cap IdxsAt(result[sq], "depth3") = {}
      /\ IdxsAt(result[sq], "depth2") \cap IdxsAt(result[sq], "depth3") = {}

\* the squares a piece reaches from the squares it can move to (no board)
SecondReach(b, from) ==
  UNION {Range(getAttackedSquares(b[from], m[1], m[2], NoBoard)) :
           m \in Range(getMoveSquares(b[from], from[1], from[2], <<b>>))}

\* the same, one hypothetical move further
ThirdReach(b, from) ==
  UNION {UNION {Range(getAttackedSquares(b[from], m2[1], m2[2], NoBoard)) :
                  m2 \in Range(getMoveSquares(b[from], m1[1], m1[2], NoBoard))} :
           m1 \in Range(getMoveSquares(b[from], from[1], from[2], <<b>>))}

\* a call to depth 3 in which a piece reaches again, one move on, a square
\* it has at depth 1, and, two moves on, a square it has at depth 2
C3_Witness ==
  /\ IsDepth /\ call.maxDepth = 3
  /\ \E from \in DOMAIN call.board, S \in Squares :
       /\ S \in AttackSetOf(call.board, from) \cap SecondReach(call.board, from)
       /\ idxOf(call.board[from]) \in IdxsAt(result[S], "depth1")
       /\ idxOf(call.board[from]) \notin IdxsAt(result[S], "depth2")
  /\ \E from \in DOMAIN call.board, S \in Squares :
       /\ S \in ThirdReach(call.board, from)
       /\ idxOf(call.board[from]) \in IdxsAt(result[S], "depth2")
       /\ idxOf(call.board[from]) \notin IdxsAt(result[S], "depth3")

\* every piece carries an identity, and no two the same
DistinctIdentities(b) ==
  /\ \A sq \in DOMAIN b : "pieceIndex" \in DOMAIN b[sq]
  /\ \A s1, s2 \in DOMAIN b : s1 # s2 => b[s1].pieceIndex # b[s2].pieceIndex

NoIdxTwice(list) ==
  \A i, j \in 1..Len(list) : i # j => list[i].idx # list[j].idx

\* C4: for a board whose pieces carry pairwise distinct identities, every
\* square of the returned grid holds each identity at most once per level:
\* once in depth-1 attackers and defenders together, once in depth 2, once
\* in depth 3 (and once in the attackers and defenders of computeDirect).
C4_OncePerLevel ==
  /\ (IsDepth /\ DistinctIdentities(call.board)) =>
       \A sq \in Squares, level \in Levels :
         NoIdxTwice(result[sq][level].attackers \o result[sq][level].defenders)
  /\ (IsDirect /\ DistinctIdentities(call.board)) =>
       \A sq \in Squares : NoIdxTwice(result[sq].attackers \o result[sq].defenders)

\* two pieces of distinct identities on one square at depth 1, and a piece
\* that reaches one square over two of its moves and is recorded there once
C4_Witness ==
  /\ IsDepth /\ call.maxDepth = 3 /\ DistinctIdentities(call.board)
  /\ \E sq \in Squares : Len(result[sq].depth1.attackers \o result[sq].depth1.defenders) = 2
  /\ \E from \in DOMAIN call.board, S \in Squares :
       \E m1, m2 \in Range(getMoveSquares(call.board[from], from[1], from[2], <<call.board>>)) :
         /\ m1 # m2
         /\ S \in Range(getAttackedSquares(call.board[from], m1[1], m1[2], NoBoard))
         /\ S \in Range(getAttackedSquares(call.board[from], m2[1], m2[2], NoBoard))
         /\ idxOf(call.board[from]) \in IdxsAt(result[S], "depth2")

EmptyLevel(cell, level) ==
  cell[level].attackers = <<>> /\ cell[level].defenders = <<>>

\* C9: computeWithDepth(board, maxDepth) populates levels 1..maxDepth only:
\* depth 2 and depth 3 are empty on every square when maxDepth = 1, and
\* depth 3 is empty on every square when maxDepth = 2.
C9_OnlyRequestedLevels ==
  IsDepth =>
    \A sq \in Squares :
      /\ call.maxDepth = 1 => EmptyLevel(result[sq], "depth2") /\ EmptyLevel(result[sq], "depth3")
      /\ call.maxDepth = 2 => EmptyLevel(result[sq], "depth3")

\* a call to depth 2 that filled depth 2 on a board whose pieces reach
\* further squares two moves on
C9_Witness ==
  /\ IsDepth /\ call.maxDepth = 2
  /\ \E sq \in Squares : result[sq].depth2.attackers # <<>>
  /\ \E from \in DOMAIN call.board :
       \E S \in ThirdReach(call.board, from) :
         idxOf(call.board[from]) \notin
           IdxsAt(result[S], "depth1") \cup IdxsAt(result[S], "depth2")

\* C10: in every grid of computeWithDepth the defenders of depth 2 and of
\* depth 3 are empty on every square: a depth-2 or depth-3 contribution is
\* an attacker, also on a square that holds a piece of the contributor's colour.
C10_DeepDefendersEmpty ==
  IsDepth =>
    \A sq \in Squares :
      /\ result[sq].depth2.defenders = <<>>
      /\ result[sq].depth3.defenders = <<>>

\* a depth-2 and a depth-3 attacker on squares that hold a piece of the
\* attacker's colour
C10_Witness ==
  /\ IsDepth /\ call.maxDepth = 3
  /\ \E sq \in DOMAIN call.board :
       \E a \in Range(result[sq].depth2.attackers) : a.color = call.board[sq].color
  /\ \E sq \in DOMAIN call.board :
       \E a \in Range(result[sq].depth3.attackers) : a.color = call.board[sq].color

\* C8: for every board and k <= m in {1,2,3}, levels 1..k of
\* computeWithDepth(board, m) are those of computeWithDepth(board, k), and
\* level 1 of computeWithDepth(board, m) holds on every square the attackers
\* and defenders of computeDirect(board).
C8_DeeperLeavesShallower ==
  IsDepth =>
    /\ \A k \in 1..call.maxDepth :
         \E shallow \in {calculateAttacksWithDepth(call.board, k).attacks} :
           \A sq \in Squares :
             /\ result[sq].depth1 = shallow[sq].depth1
             /\ k >= 2 => result[sq].depth2 = shallow[sq].depth2
             /\ k >= 3 => result[sq].depth3 = shallow[sq].depth3
    /\ \E direct \in {calculateAllAttacks(call.board).attacks} :
         \A sq \in Squares :
           /\ result[sq].depth1.attackers = direct[sq].attackers
           /\ result[sq].depth1.defenders = direct[sq].defenders

\* a call to depth 3 that filled all three levels, with attackers and
\* defenders at depth 1
C8_Witness ==
  /\ IsDepth /\ call.maxDepth = 3
  /\ \E sq \in Squares : result[sq].depth1.attackers # <<>>
  /\ \E sq \in Squares : result[sq].depth1.defenders # <<>>
  /\ \E sq \in Squares : result[sq].depth2.attackers # <<>>
  /\ \E sq \in Squares : result[sq].depth3.attackers # <<>>

\* C6: the aggregator keeps no shared mutable state across calls: no
\* module-level state differs after a call of computeDirect or
\* computeWithDepth from what it was before the call.
C6_NoModuleLevelChange == [][pieceColorMap' = pieceColorMap]_vars

GeometryOps == {"getAttackedSquares", "getMoveSquares"}

AggregatorOps ==
  {"calculateAllAttacks", "calculateAttacksWithDepth", "calculateAttackCounts"}

\* the board the last call was given
BoardGiven == IF call.op \in GeometryOps THEN call.board[1] ELSE call.board

\* C5: no core operation changes the board it is given: a step in which a
\* call is made or leaves anything behind keeps every square of the board
\* as it was, and the board is the one the call was given.
C5_BoardUnchanged ==
  [][(call' # call \/ result' # result \/ pieceColorMap' # pieceColorMap)
       => /\ call'.op \in GeometryOps \cup AggregatorOps
          /\ BoardGiven' = board
          /\ board' = board]_vars

\* an aggregator call made on a board that holds pieces: it left the
\* module-level map filled and the caller's board as it was given
C5_Witness ==
  /\ call.op = "calculateAttackCounts"
  /\ DOMAIN call.board # {}
  /\ board = call.board
  /\ pieceColorMap # {}

\* the pieces of b that attack sq at depth 1
AttackersOf(b, sq) == {from \in DOMAIN b : sq \in AttackSetOf(b, from)}

\* C11: calculateAttackCounts returns, for every board and every square, the
\* number of distinct pieces that attack that square at depth 1, an integer
\* between 0 and the number of pieces on the board.
C11_AttackCounts ==
  call.op = "calculateAttackCounts" =>
    \A sq \in Squares :
      /\ result[sq] = <<Cardinality(AttackersOf(call.board, sq))>>
      /\ Len(result[sq]) = 1
      /\ result[sq][1] \in 0..Cardinality(DOMAIN call.board)

----------------------------------------------------------------------------
(* Claims about the geometry of the single pieces *)

IsAttackedCall == call.op = "getAttackedSquares"

\* the squares of the board among origin + offset
Targets(row, col, offsets) ==
  {<<row + d[1], col + d[2]>> : d \in offsets} \cap Squares

\* C12: a pawn at (row, col) attacks exactly the on-board squares among
\* (row+d, col-1) and (row+d, col+1), d = -1 for white and +1 for black; it
\* never attacks (row+d, col), and the set is the same whatever the board holds.
C12_PawnAttacks ==
  (IsAttackedCall /\ call.piece.type = "pawn") =>
    LET d == IF call.piece.color = "white" THEN -1 ELSE 1
        expected == Targets(call.row, call.col, {<<d, -1>>, <<d, 1>>})
    IN /\ Range(result) = expected
       /\ Len(result) = Cardinality(expected)
       /\ <<call.row + d, call.col>> \notin Range(result)

\* a white pawn on e4 asked with a board that holds a piece on d5 and one
\* on d3: d5 and f5 are attacked
C12_Witness ==
  /\ IsAttackedCall /\ call.piece.type = "pawn" /\ call.piece.color = "white"
  /\ call.row = 4 /\ call.col = 4
  /\ Len(call.board) > 0
  /\ DOMAIN call.board[1] = {<<3, 3>>, <<5, 3>>}
  /\ Range(result) = {<<3, 3>>, <<3, 5>>}

KnightSteps == {d \in (-2..2) \X (-2..2) : Abs(d[1]) * Abs(d[2]) = 2}

\* C13: for a king or a knight at any origin and with any board,
\* getAttackedSquares returns exactly the on-board squares among the 8 unit
\* offsets (king) or the 8 L-shaped deltas (knight), each once; every
\* returned square has row and column in 0..7.
C13_KingKnightTargets ==
  (IsAttackedCall /\ call.piece.type \in {"king", "knight"}) =>
    LET expected == Targets(call.row, call.col,
                            IF call.piece.type = "king" THEN UnitSteps ELSE KnightSteps)
    IN /\ Range(result) = expected
       /\ Len(result) = Cardinality(expected)
       /\ \A i \in 1..Len(result) :
            result[i][1] \in 0..7 /\ result[i][2] \in 0..7

\* a knight on b4, asked with a board that holds a piece on d5: two of its
\* deltas fall off the board, six squares are returned, d5 among them
C13_Witness ==
  /\ IsAttackedCall /\ call.piece.type = "knight"
  /\ call.row = 4 /\ call.col = 1
  /\ Len(call.board) > 0
  /\ <<3, 3>> \in DOMAIN call.board[1]
  /\ Len(result) = 6
  /\ <<3, 3>> \in Range(result)

\* C14: for every origin and every board (no board included) the attack set
\* of a queen is the union of the attack sets of a rook and of a bishop at
\* the same origin on the same board.
C14_QueenIsRookAndBishop ==
  (IsAttackedCall /\ call.piece.type = "queen") =>
    Range(result) =
      Range(getAttackedSquares([type |-> "rook", color |-> call.piece.color],
                               call.row, call.col, call.board))
      \cup Range(getAttackedSquares([type |-> "bishop", color |-> call.piece.color],
                                    call.row, call.col, call.board))

\* a queen on b4 with a board that holds pieces on d4 and d6: the rank and
\* the diagonal both stop on the d-file
C14_Witness ==
  /\ IsAttackedCall /\ call.piece.type = "queen"
  /\ call.row = 4 /\ call.col = 1
  /\ Len(call.board) > 0
  /\ DOMAIN call.board[1] = {<<4, 3>>, <<2, 3>>}
  /\ {<<4, 3>>, <<2, 3>>} \subseteq Range(result)
  /\ <<4, 4>> \notin Range(result)
  /\ <<1, 4>> \notin Range(result)

OffBoard(row, col, offsets) ==
  Cardinality({d \in offsets : <<row + d[1], col + d[2]>> \notin Squares})

\* C15: on an empty board, for every origin, the attack set has at most 14
\* squares for a rook, 13 for a bishop, 27 for a queen and 2 for a pawn, and
\* for a king or a knight 8 minus the number of its deltas that fall off
\* the board.
C15_EmptyBoardSizes ==
  (IsAttackedCall /\ (Len(call.board) = 0 \/ DOMAIN call.board[1] = {})) =>
    /\ call.piece.type = "rook" => Len(result) <= 14
    /\ call.piece.type = "bishop" => Len(result) <= 13
    /\ call.piece.type = "queen" => Len(result) <= 27
    /\ call.piece.type = "pawn" => Len(result) <= 2
    /\ call.piece.type = "king" =>
         Len(result) = 8 - OffBoard(call.row, call.col, UnitSteps)
    /\ call.piece.type = "knight" =>
         Len(result) = 8 - OffBoard(call.row, call.col, KnightSteps)
    /\ Len(result) = Cardinality(Range(result))

\* a king in the corner a8 of an empty board given as a board: five of its
\* deltas fall off, three squares are returned
C15_Witness ==
  /\ IsAttackedCall /\ call.piece.type = "king"
  /\ call.row = 0 /\ call.col = 0
  /\ Len(call.board) > 0
  /\ DOMAIN call.board[1] = {}
  /\ Len(result) = 3

----------------------------------------------------------------------------
(* Claims about the scenarios *)

\* the board holds one piece, of this type
LoneBoard(b, type) ==
  Cardinality(DOMAIN b) = 1 /\ \A at \in DOMAIN b : b[at].type = type

\* C16: for a board that holds a single rook and nothing else, computeDirect
\* returns a grid in which every other square of the rook's row and of its
\* column has an attackers list holding exactly the rook's identity, and
\* every remaining square, the rook's own included, has empty attackers and
\* defenders.
C16_LoneRook ==
  (IsDirect /\ LoneBoard(call.board, "rook")) =>
    \A at \in DOMAIN call.board, sq \in Squares :
      IF sq # at /\ (sq[1] = at[1] \/ sq[2] = at[2])
      THEN /\ result[sq].attackers = <<Contribution(call.board[at])>>
           /\ result[sq].defenders = <<>>
      ELSE result[sq] = EmptyCell

\* scenario B: the rook on d4; a4 and d8 hold it, d4 and e5 nothing
C16_Witness ==
  /\ IsDirect /\ LoneBoard(call.board, "rook")
  /\ DOMAIN call.board = {<<4, 3>>}
  /\ Len(result[<<4, 0>>].attackers) = 1
  /\ Len(result[<<0, 3>>].attackers) = 1
  /\ result[<<4, 3>>] = EmptyCell
  /\ result[<<3, 4>>] = EmptyCell

KnightTargets(sq) == Targets(sq[1], sq[2], KnightSteps)

\* C17: for a board that holds a single knight and maxDepth = 2, the
\* knight's depth-1 attacker squares are exactly the on-board knight-move
\* squares from its position, and its depth-2 attacker squares exactly the
\* union of the on-board knight-move squares from each of those, minus the
\* squares it has at depth 1.
C17_LoneKnightDepth2 ==
  (IsDepth /\ call.maxDepth = 2 /\ LoneBoard(call.board, "knight")) =>
    \A at \in DOMAIN call.board :
      LET first == KnightTargets(at)
          second == UNION {KnightTargets(m) : m \in first} \ first
          knight == Contribution(call.board[at])
      IN \A sq \in Squares :
           /\ result[sq].depth1.attackers = IF sq \in first THEN <<knight>> ELSE <<>>
           /\ result[sq].depth2.attackers = IF sq \in second THEN <<knight>> ELSE <<>>

\* scenario D: the knight on b1; a3, c3 and d2 at depth 1; from those b5,
\* c4, e4 and b1 itself, among others, at depth 2
C17_Witness ==
  /\ IsDepth /\ call.maxDepth = 2 /\ LoneBoard(call.board, "knight")
  /\ DOMAIN call.board = {<<7, 1>>}
  /\ {sq \in Squares : result[sq].depth1.attackers # <<>>}
       = {<<5, 0>>, <<5, 2>>, <<6, 3>>}
  /\ \A sq \in {<<3, 1>>, <<4, 2>>, <<4, 4>>, <<7, 1>>} :
       result[sq].depth2.attackers # <<>>

\* d5, e5, d4, e4
Centre == {<<3, 3>>, <<3, 4>>, <<4, 3>>, <<4, 4>>}

\* the squares of a rank, rank 1 being row 7
Rank(n) == {sq \in Squares : sq[1] = BoardSize - n}

\* C18: for the starting position computeDirect reports zero attackers on
\* d4, d5, e4 and e5, and on every square of rank 3 and of rank 6 no
\* defenders and only attackers of the colour whose pawns stand behind that
\* rank: white on rank 3, black on rank 6.
C18_StartingPosition ==
  (IsDirect /\ call.board = createStartingBoard.board) =>
    /\ \A sq \in Centre : result[sq].attackers = <<>>
    /\ \A sq \in Rank(3) :
         /\ result[sq].defenders = <<>>
         /\ \A a \in Range(result[sq].attackers) : a.color = "white"
    /\ \A sq \in Rank(6) :
         /\ result[sq].defenders = <<>>
         /\ \A a \in Range(result[sq].attackers) : a.color = "black"

\* scenario E: c3 is attacked by the pawns b2 and d2 and the knight b1, f6
\* by the pawns e7 and g7 and the knight g8
C18_Witness ==
  /\ IsDirect /\ call.board = createStartingBoard.board
  /\ Len(result[<<5, 2>>].attackers) = 3
  /\ Len(result[<<2, 5>>].attackers) = 3
  /\ \A sq \in Rank(3) \cup Rank(6) : result[sq].attackers # <<>>

\* C19: for a board with zero pieces computeDirect and computeWithDepth, for
\* every maxDepth in {1,2,3}, return an 8x8 grid in which every square has
\* empty attackers and defenders at every level.
C19_EmptyBoard ==
  /\ (IsDirect /\ DOMAIN call.board = {}) =>
       /\ DOMAIN result = Squares
       /\ \A sq \in Squares :
            result[sq].attackers = <<>> /\ result[sq].defenders = <<>>
  /\ (IsDepth /\ DOMAIN call.board = {}) =>
       /\ DOMAIN result = Squares
       /\ \A sq \in Squares, level \in Levels : EmptyLevel(result[sq], level)

\* the empty board called to depth 3 after a first call on a board that
\* holds pieces
C19_Witness ==
  /\ IsDepth /\ call.maxDepth = 3 /\ DOMAIN call.board = {}
  /\ saved.set /\ DOMAIN saved.board # {}
  /\ pieceColorMap = {}
  /\ DOMAIN result = Squares

\* C20: a board that holds a piece whose type is none of king, queen, rook,
\* bishop, knight, pawn is rejected before any attack computation starts:
\* the aggregator returns no grid for it.
C20_UnknownTypeRejected ==
  ((IsDirect \/ IsDepth)
     /\ \E sq \in DOMAIN call.board : call.board[sq].type \notin PIECE_TYPES)
    => DOMAIN result # Squares

----------------------------------------------------------------------------
(* Claims about the deeper levels.  A grid records identities: where the   *)
(* pieces of the board carry pairwise distinct identities, as the boards   *)
(* the app builds do, "piece P appears on a square" is "P's identity is in *)
(* the square's list".                                                     *)

\* the squares on which the piece standing on from appears at a level
SquaresAt(b, from, level) ==
  {sq \in Squares : idxOf(b[from]) \in IdxsAt(result[sq], level)}

C27_MoveSquares ==
  (call.op = "getMoveSquares" /\ Len(call.board) > 0) =>
    IF call.piece.type # "pawn"
    THEN result = getAttackedSquares(call.piece, call.row, call.col, call.board)
    ELSE
      LET d == IF call.piece.color = "white" THEN -1 ELSE 1
          start == IF call.piece.color = "white" THEN 6 ELSE 1
          one == <<call.row + d, call.col>>
          two == <<call.row + (2 * d), call.col>>
          free(sq) == sq \in Squares /\ sq \notin DOMAIN call.board[1]
          expected ==
            (IF free(one) THEN {one} ELSE {})
            \cup (IF call.row = start /\ free(one) /\ free(two) THEN {two} ELSE {})
            \cup Targets(call.row, call.col, {<<d, -1>>, <<d, 1>>})
      IN /\ Range(result) = expected
         /\ Len(result) = Cardinality(expected)

\* a white pawn on d2 with a board that holds a piece on d4: d3 and the
\* diagonals c3 and e3 are returned, d4 is not
C27_Witness ==
  /\ call.op = "getMoveSquares" /\ Len(call.board) > 0
  /\ call.piece.type = "pawn" /\ call.piece.color = "white"
  /\ call.row = 6 /\ call.col = 3
  /\ <<4, 3>> \in DOMAIN call.board[1]
  /\ Range(result) = {<<5, 3>>, <<5, 2>>, <<5, 4>>}

C29_MaxDepthClamped ==
  IsDepth =>
    /\ call.maxDepth < 2 =>
         result = calculateAttacksWithDepth(call.board, 1).attacks
    /\ call.maxDepth > 3 =>
         result = calculateAttacksWithDepth(call.board, 3).attacks

\* a call with a maxDepth above 3 that filled depth 2 and depth 3
C29_Witness ==
  /\ IsDepth /\ call.maxDepth > 3
  /\ \E sq \in Squares : result[sq].depth2.attackers # <<>>
  /\ \E sq \in Squares : result[sq].depth3.attackers # <<>>

----------------------------------------------------------------------------
(* Claims about the app.  call.board, call.nextIndex and call.dragged are  *)
(* the board, the counter and the dragged piece the handler found.         *)

\* the squares other than those of gone hold on b what they hold on before,
\* and are empty on b where they are empty on before
SameElsewhere(b, before, gone) ==
  /\ (DOMAIN b) \ gone = (DOMAIN before) \ gone
  /\ \A sq \in (DOMAIN b) \ gone : b[sq] = before[sq]

\* the handler ran with a piece dragged from a board square
DraggedFromBoard ==
  /\ call.dragged # <<>>
  /\ call.dragged[1].fromBoard
  /\ call.dragged[1].at # <<>>

\* C21: when the app is opened without a pieces URL parameter, the initial
\* board holds no piece on any square.
C21_BoardStartsEmpty ==
  (call.op = "App" /\ call.piecesParam = <<>>) => DOMAIN board = {}

\* C22: a right-click on a piece's square, and a drop off the board of a piece
\* dragged from the board, empty that square and leave every other square as
\* it was; a drop off the board of a palette piece leaves the board as it was.
C22_RemoveEmptiesOneSquare ==
  /\ call.op = "handleContextMenu" =>
       /\ call.at \notin DOMAIN board
       /\ SameElsewhere(board, call.board, {call.at})
  /\ (call.op = "handleDropOutside" /\ DraggedFromBoard) =>
       /\ call.dragged[1].at \notin DOMAIN board
       /\ SameElsewhere(board, call.board, {call.dragged[1].at})
  /\ (call.op = "handleDropOutside" /\ call.dragged # <<>>
        /\ ~call.dragged[1].fromBoard) =>
       board = call.board

\* a piece dragged from the board was dropped off the board while it stood on
\* its square among other pieces
C22_Witness ==
  /\ call.op = "handleDropOutside"
  /\ DraggedFromBoard
  /\ call.dragged[1].at \in DOMAIN call.board
  /\ call.board[call.dragged[1].at] = call.dragged[1].piece
  /\ DOMAIN board # {}
  /\ DOMAIN board # DOMAIN call.board

\* C23: after any sequence of app operations every piece of the board has a
\* pieceIndex that is a natural number below the next-identity counter, and
\* no two pieces have the same pieceIndex.
C23_IdentitiesUniqueBelowCounter ==
  /\ \A sq \in DOMAIN board :
       /\ "pieceIndex" \in DOMAIN board[sq]
       /\ board[sq].pieceIndex \in 0..(nextPieceIndex - 1)
  /\ \A sq \in DOMAIN board : \A other \in (DOMAIN board) \ {sq} :
       board[sq].pieceIndex # board[other].pieceIndex

\* a palette piece was dropped on a board that held a piece elsewhere, and
\* took the identity the counter stood at
C23_Witness ==
  /\ call.op = "handleDrop"
  /\ call.dragged # <<>>
  /\ ~call.dragged[1].fromBoard
  /\ (DOMAIN call.board) \ {call.at} # {}
  /\ board[call.at].pieceIndex = call.nextIndex
  /\ nextPieceIndex = call.nextIndex + 1

\* C24: a piece dragged from one board square and dropped on another stands
\* on the destination with its type, colour and pieceIndex, its origin is
\* empty, no other square has changed and the counter has not advanced.
C24_MoveKeepsPiece ==
  (call.op = "handleDrop" /\ DraggedFromBoard /\ call.at # call.dragged[1].at) =>
    /\ board[call.at] = call.dragged[1].piece
    /\ call.dragged[1].at \notin DOMAIN board
    /\ SameElsewhere(board, call.board, {call.at, call.dragged[1].at})
    /\ nextPieceIndex = call.nextIndex

====
